---- MODULE Spec2Model ----
(***************************************************************************)
(* State-machine model of ProtonManager (src/wine_manager.py): the worker  *)
(* threads started by install, uninstall and query_remote, the remoteReady *)
(* rendezvous of _sync_remote, the store directory proton_dir, the         *)
(* temporary download files and the Qt signals the workers emit.           *)
(*                                                                         *)
(* One action is one step of one worker thread; the steps of different     *)
(* workers interleave freely (Spec) or one request at a time (SpecSeq).    *)
(***************************************************************************)
EXTENDS Naturals, Sequences, FiniteSets, TLC

\* ---------------------------------------------------------------- bounds
MaxReq == 2        \* requests the coordinating context issues in one run
MaxChunks == 2     \* chunks iter_content yields for one download
MaxMembers == 2    \* members of a downloaded archive
MaxRecords == 2    \* release records in the answer of the releases API
MaxAssets == 2     \* assets of one release record
MaxRoots == 2      \* candidate roots of discover_prefixes
MaxCalls == 2      \* calls of discover_prefixes in one run

\* ------------------------------------------------------- program constants
CHUNK == 8192      \* ProtonManager.CHUNK

\* ------------------------------------------------------------------ data
Tags == {"A", "B"}                 \* version tags = directory names under proton_dir
Marker == "proton"                 \* the entry-point file (p/"proton")
Files == {Marker, "lib"}           \* file names inside a version directory
Reqs == 1..MaxReq
\* tags of the releases the GitHub index lists with a .tar.gz asset
Catalog == {"A"}

\* a directory entry of proton_dir: absent, or present with a set of files
NoDir == [exists |-> FALSE, files |-> {}]
Dir(fs) == [exists |-> TRUE, files |-> fs]

\* an archive member "dir/file"; members[0].name.split("/",1)[0] is its dir
Members == [dir : Tags, file : Files]

RECURSIVE SeqsUpTo(_, _)
SeqsUpTo(S, n) ==
  IF n = 0 THEN {<<>>}
  ELSE LET shorter == SeqsUpTo(S, n - 1)
       IN  shorter \cup {Append(s, x) : s \in {q \in shorter : Len(q) = n - 1}, x \in S}

Archives == SeqsUpTo(Members, MaxMembers)

\* lengths of the chunks iter_content(CHUNK) may yield: empty or full
ChunkLens == {0, CHUNK}
\* Content-Length header: absent (0) or a size
Totals == {0, CHUNK}

\* error messages str(e) of the exceptions the pipeline catches
EmptyArchive == "Empty archive"
DownloadError == "download error"
ReadError == "read error"
ExtractError == "extract error"
RenameError == "rename error"

VARIABLES
  store,      \* proton_dir: [Tags -> directory entry]
  tmpfiles,   \* names of the temporary files that exist
  asset,      \* the archive behind asset_url: its members, in order
  length,     \* its Content-Length header (0: the server sends none)
  kind,       \* kind[r]: the request r ("none" before it is issued)
  tag,        \* tag[r]: its tag argument
  pc,         \* pc[r]: position of the worker thread of request r
  fetch,      \* fetch[r]: the _fetch_remote thread request r started
  connected,  \* requests whose cb is connected to remoteReady
  evt,        \* evt[r]: the threading.Event of _sync_remote
  container,  \* container[r]: the list cb stored (tags of the releases)
  releases,   \* releases[r]: what _sync_remote returned
  tmp,        \* tmp[r]: name of the temporary file (0: none)
  done,       \* done[r]: bytes written so far
  members,    \* members[r]: tar.getmembers()
  extracted,  \* extracted[r]: members extractall has written so far
  err,        \* err[r]: str(e) of the caught exception
  events,     \* events[r]: the signals worker r emitted, in emission order (history)
  last,       \* last[t]: the signal emitted last with tag t, by any worker
  snap,       \* snap[r]: proton_dir when request r was issued (history, SpecSeq)
  nfetch,     \* nfetch[r]: catalog fetches request r started (history)
  nget,       \* nget[r]: archive download requests request r issued (history)
  \* one run of _fetch_remote, record by record
  index,      \* the JSON the releases API answers: a list of release records
  fpc,        \* position of the run
  fi,         \* records of index the loop has handled
  lst,        \* the list of ProtonRelease built so far
  ready,      \* payloads of the remoteReady signals emitted, in order (history)
  ferr,       \* the run ended in the except block (history)
  nq,         \* query_remote calls so far (history)
  \* discover_prefixes
  link,       \* link[i]: the physical directory candidate root i resolves to
  disk,       \* disk[d]: what the physical directory d holds
  dpc,        \* position of the call
  ri,         \* index of the root the loop is at
  prefixes,   \* the set of path strings recorded so far
  result,     \* the list the call returned
  prev,       \* the list the call before it returned (history)
  ncalls,     \* calls so far (history)
  skipped,    \* roots whose enumeration raised in this call (history)
  ctx         \* where the coordinating context (the GUI thread) is

mvars == <<store, tmpfiles, asset, length, kind, tag, pc, fetch, connected, evt,
           container, releases, tmp, done, members, extracted, err, events,
           last, snap, nfetch, nget>>
fvars == <<index, fpc, fi, lst, ready, ferr, nq>>
dvars == <<link, disk, dpc, ri, prefixes, result, prev, ncalls, skipped, ctx>>

vars == <<store, tmpfiles, asset, length, kind, tag, pc, fetch, connected, evt,
          container, releases, tmp, done, members, extracted, err, events,
          last, snap, nfetch, nget, index, fpc, fi, lst, ready, ferr, nq,
          link, disk, dpc, ri, prefixes, result, prev, ncalls, skipped, ctx>>

\* ---------------------------------------------------------------- signals
NoSignal ==
  [sig |-> "none", tag |-> "", done |-> 0, total |-> 0, ok |-> FALSE, msg |-> "",
   list |-> <<>>]
Progress(t, d, n) ==
  [sig |-> "downloadProgress", tag |-> t, done |-> d, total |-> n, ok |-> FALSE, msg |-> "",
   list |-> <<>>]
Phase(t, m) ==
  [sig |-> "installProgress", tag |-> t, done |-> 0, total |-> 0, ok |-> FALSE, msg |-> m,
   list |-> <<>>]
Finished(t, s, m) ==
  [sig |-> "downloadFinished", tag |-> t, done |-> 0, total |-> 0, ok |-> s, msg |-> m,
   list |-> <<>>]
UninstallFinished(t, s, m) ==
  [sig |-> "uninstallFinished", tag |-> t, done |-> 0, total |-> 0, ok |-> s, msg |-> m,
   list |-> <<>>]

InstalledReady(l) ==
  [sig |-> "installedReady", tag |-> "", done |-> 0, total |-> 0, ok |-> FALSE, msg |-> "",
   list |-> l]

\* worker r emits signal e; every connected slot receives it
Emit(r, e) ==
  /\ events' = [events EXCEPT ![r] = Append(@, e)]
  /\ last' = [last EXCEPT ![e.tag] = e]

\* worker r emits a signal that carries no tag
EmitList(r, e) ==
  /\ events' = [events EXCEPT ![r] = Append(@, e)]
  /\ UNCHANGED last

\* ------------------------------------------------------------- filesystem
\* mutant: the check looks for the entry-point file instead of the directory
ExistsWithMarker(st, n) == st[n].exists /\ Marker \in st[n].files

Exists(st, n) == st[n].exists

\* shutil.rmtree(proton_dir / n): the directory and all it holds are gone
Rmtree(st, n) == [st EXCEPT ![n] = NoDir]

\* tar.extractall writes one member below proton_dir, creating its directory
ExtractInto(st, m) == [st EXCEPT ![m.dir] = Dir(@.files \cup {m.file})]

\* os.rename(src, dst) on directories: a no-op on the same path, replaces an
\* empty directory, raises OSError on a non-empty one
RenameOk(st, src, dst) ==
  src = dst \/ ~st[dst].exists \/ st[dst].files = {}
Rename(st, src, dst) ==
  IF src = dst THEN st
  ELSE [st EXCEPT ![dst] = st[src], ![src] = NoDir]

\* sorted(p.name for p in proton_dir.iterdir() if (p/"proton").exists())
ListInstalled(st) == {n \in Tags : st[n].exists /\ Marker \in st[n].files}

\* sorted(...) of a set of names: the names in str order
TagOrder == <<"A", "B">>
Sorted(S) == SelectSeq(TagOrder, LAMBDA t : t \in S)

\* mutant: every directory is listed, with or without the entry point
ListAllDirs(st) == {n \in Tags : st[n].exists}

\* tempfile.mkstemp: a name no existing file has
FreshTmp(names) == CHOOSE n \in 1..(MaxReq + 1) : n \notin names /\ \A m \in 1..(n - 1) : m \in names

\* ------------------------------------------------------------------- init
InitDirs == {NoDir, Dir(Files), Dir({"lib"})}

\* the state after ProtonManager.__init__: proton_dir exists (mkdir exist_ok)
\* and holds whatever earlier runs or other tools left in it
InitManager ==
  /\ store \in [Tags -> InitDirs]
  /\ tmpfiles = {}
  /\ asset \in Archives
  /\ length \in Totals
  /\ kind = [r \in Reqs |-> "none"]
  /\ tag = [r \in Reqs |-> "A"]
  /\ pc = [r \in Reqs |-> "idle"]
  /\ fetch = [r \in Reqs |-> "none"]
  /\ connected = {}
  /\ evt = [r \in Reqs |-> FALSE]
  /\ container = [r \in Reqs |-> {}]
  /\ releases = [r \in Reqs |-> {}]
  /\ tmp = [r \in Reqs |-> 0]
  /\ done = [r \in Reqs |-> 0]
  /\ members = [r \in Reqs |-> <<>>]
  /\ extracted = [r \in Reqs |-> 0]
  /\ err = [r \in Reqs |-> ""]
  /\ events = [r \in Reqs |-> <<>>]
  /\ last = [t \in Tags |-> NoSignal]
  /\ snap = [r \in Reqs |-> store]
  /\ nfetch = [r \in Reqs |-> 0]
  /\ nget = [r \in Reqs |-> 0]

\* no _fetch_remote run is followed record by record
FetchIdle ==
  /\ index = <<>>
  /\ fpc = "idle"
  /\ fi = 0
  /\ lst = <<>>
  /\ ready = <<>>
  /\ ferr = FALSE
  /\ nq = 0

\* discover_prefixes is not called
DiscoverIdle ==
  /\ link = <<>>
  /\ disk = <<>>
  /\ dpc = "idle"
  /\ ri = 0
  /\ prefixes = {}
  /\ result = <<>>
  /\ prev = <<>>
  /\ ncalls = 0
  /\ skipped = {}
  /\ ctx = "loop"

Init == InitManager /\ FetchIdle /\ DiscoverIdle

\* the manager with an empty store and no request
ManagerIdle ==
  /\ InitManager
  /\ \A t \in Tags : store[t] = NoDir
  /\ asset = <<>>
  /\ length = 0

\* ------------------------------------------------- the coordinating context
Active(r) == pc[r] \notin {"idle", "done"}

\* ProtonManager.install / uninstall / query_remote / query_installed: start a
\* daemon thread
Start(r, k, t) ==
  /\ k \in {"install", "uninstall", "listRemote", "listInstalled"}
  /\ k \in {"listRemote", "listInstalled"} => t = "A"
  /\ pc[r] = "idle"
  /\ \A q \in Reqs : q < r => pc[q] # "idle"
  /\ kind' = [kind EXCEPT ![r] = k]
  /\ tag' = [tag EXCEPT ![r] = t]
  /\ pc' = [pc EXCEPT ![r] = CASE k = "install" -> "sync"
                                [] k = "uninstall" -> "uninstall"
                                [] k = "listInstalled" -> "listing"
                                [] OTHER -> "fetching"]
  /\ fetch' = [fetch EXCEPT ![r] = IF k = "listRemote" THEN "running" ELSE @]
  /\ nfetch' = [nfetch EXCEPT ![r] = IF k = "listRemote" THEN 1 ELSE @]
  /\ UNCHANGED <<store, tmpfiles, asset, length, connected, evt, container, releases, tmp,
                 done, members, extracted, err, events, last, nget>>
  /\ UNCHANGED <<fvars, dvars>>

\* requests issued with no limit on the workers already running
Issue ==
  /\ \E r \in Reqs, t \in Tags :
       \/ Start(r, "install", t) \/ Start(r, "uninstall", t)
       \/ Start(r, "listRemote", t) \/ Start(r, "listInstalled", t)
  /\ UNCHANGED snap

\* requests issued one at a time: the next one after the previous worker ended
IssueSeq ==
  /\ \A q \in Reqs : ~Active(q)
  /\ \E r \in Reqs, t \in Tags :
       /\ \/ Start(r, "install", t) \/ Start(r, "uninstall", t)
          \/ Start(r, "listRemote", t) \/ Start(r, "listInstalled", t)
       /\ snap' = [snap EXCEPT ![r] = store]

\* ------------------------------------------------------------ _sync_remote
\* remoteReady.connect(cb); query_remote(); then evt.wait(20)
SyncRemote(r) ==
  /\ pc[r] = "sync"
  /\ connected' = connected \cup {r}
  /\ fetch' = [fetch EXCEPT ![r] = "running"]
  /\ nfetch' = [nfetch EXCEPT ![r] = @ + 1]
  /\ pc' = [pc EXCEPT ![r] = "wait"]
  /\ UNCHANGED <<store, tmpfiles, asset, length, kind, tag, evt, container, releases, tmp,
                 done, members, extracted, err, events, last, snap, nget>>
  /\ UNCHANGED <<fvars, dvars>>

\* _fetch_remote: the mapped list on success, [] on any exception; the emit
\* runs every connected cb (container = lst; evt.set())
FetchRemote(r, ok) ==
  /\ fetch[r] = "running"
  /\ LET payload == IF ok THEN Catalog ELSE {}
     IN  /\ container' = [q \in Reqs |-> IF q \in connected THEN payload ELSE container[q]]
         /\ evt' = [q \in Reqs |-> IF q \in connected THEN TRUE ELSE evt[q]]
  /\ fetch' = [fetch EXCEPT ![r] = "done"]
  /\ pc' = [pc EXCEPT ![r] = IF kind[r] = "listRemote" THEN "done" ELSE @]
  /\ UNCHANGED <<store, tmpfiles, asset, length, kind, tag, connected, releases, tmp, done, members, extracted, err, events, last, snap, nfetch, nget>>
  /\ UNCHANGED <<fvars, dvars>>

\* evt.wait(20) returns because cb set the event
WaitSet(r) ==
  /\ pc[r] = "wait"
  /\ evt[r]
  /\ connected' = connected \ {r}
  /\ releases' = [releases EXCEPT ![r] = container[r]]
  /\ container' = [container EXCEPT ![r] = {}]
  /\ evt' = [evt EXCEPT ![r] = FALSE]
  /\ pc' = [pc EXCEPT ![r] = "resolve"]
  /\ UNCHANGED <<store, tmpfiles, asset, length, kind, tag, fetch, tmp, done, members, extracted, err, events, last, snap, nfetch, nget>>
  /\ UNCHANGED <<fvars, dvars>>

\* evt.wait(20) returns because 20 s passed: container is still []
WaitTimeout(r) ==
  /\ pc[r] = "wait"
  /\ ~evt[r]
  /\ connected' = connected \ {r}
  /\ releases' = [releases EXCEPT ![r] = container[r]]
  /\ container' = [container EXCEPT ![r] = {}]
  /\ evt' = [evt EXCEPT ![r] = FALSE]
  /\ pc' = [pc EXCEPT ![r] = "resolve"]
  /\ UNCHANGED <<store, tmpfiles, asset, length, kind, tag, fetch, tmp, done, members, extracted, err, events, last, snap, nfetch, nget>>
  /\ UNCHANGED <<fvars, dvars>>

\* ---------------------------------------------------------------- _install
\* mutant: the return after the emit is missing; rel.asset_url then raises
NotFoundNoReturn(r) ==
  /\ pc[r] = "resolve"
  /\ tag[r] \notin releases[r]
  /\ Emit(r, Finished(tag[r], FALSE, "Release not found"))
  /\ err' = [err EXCEPT ![r] = "no attribute asset_url"]
  /\ pc' = [pc EXCEPT ![r] = "cleanup"]
  /\ UNCHANGED <<store, tmpfiles, asset, length, kind, tag, fetch, connected, evt, container,
                 releases, tmp, done, members, extracted, snap, nfetch, nget>>
  /\ UNCHANGED <<fvars, dvars>>

\* mutant: dest.exists() is looked at before the release is resolved
NotFoundChecksDest(r) ==
  /\ pc[r] = "resolve"
  /\ tag[r] \notin releases[r]
  /\ IF Exists(store, tag[r])
     THEN Emit(r, Finished(tag[r], TRUE, "Already installed"))
     ELSE Emit(r, Finished(tag[r], FALSE, "Release not found"))
  /\ pc' = [pc EXCEPT ![r] = "done"]
  /\ UNCHANGED <<store, tmpfiles, asset, length, kind, tag, fetch, connected, evt, container,
                 releases, tmp, done, members, extracted, err, snap,
                 nfetch, nget>>
  /\ UNCHANGED <<fvars, dvars>>

\* rel is None: "Release not found"
NotFound(r) ==
  /\ pc[r] = "resolve"
  /\ tag[r] \notin releases[r]
  /\ Emit(r, Finished(tag[r], FALSE, "Release not found"))
  /\ pc' = [pc EXCEPT ![r] = "done"]
  /\ UNCHANGED <<store, tmpfiles, asset, length, kind, tag, fetch, connected, evt, container,
                 releases, tmp, done, members, extracted, err, snap,
                 nfetch, nget>>
  /\ UNCHANGED <<fvars, dvars>>

\* mutant: the return after the emit is missing; the download starts anyway
AlreadyInstalledNoReturn(r) ==
  /\ pc[r] = "resolve"
  /\ tag[r] \in releases[r]
  /\ Exists(store, tag[r])
  /\ Emit(r, Finished(tag[r], TRUE, "Already installed"))
  /\ tmp' = [tmp EXCEPT ![r] = FreshTmp(tmpfiles)]
  /\ tmpfiles' = tmpfiles \cup {FreshTmp(tmpfiles)}
  /\ pc' = [pc EXCEPT ![r] = "get"]
  /\ UNCHANGED <<store, asset, length, kind, tag, fetch, connected, evt, container,
                 releases, done, members, extracted, err, snap, nfetch, nget>>
  /\ UNCHANGED <<fvars, dvars>>

\* dest.exists(): "Already installed"
AlreadyInstalled(r) ==
  /\ pc[r] = "resolve"
  /\ tag[r] \in releases[r]
  /\ Exists(store, tag[r])
  /\ Emit(r, Finished(tag[r], TRUE, "Already installed"))
  /\ pc' = [pc EXCEPT ![r] = "done"]
  /\ UNCHANGED <<store, tmpfiles, asset, length, kind, tag, fetch, connected, evt, container,
                 releases, tmp, done, members, extracted, err, snap,
                 nfetch, nget>>
  /\ UNCHANGED <<fvars, dvars>>

\* fd, tmp = tempfile.mkstemp(suffix=".tar.gz")
Mkstemp(r) ==
  /\ pc[r] = "resolve"
  /\ tag[r] \in releases[r]
  /\ ~Exists(store, tag[r])
  /\ tmp' = [tmp EXCEPT ![r] = FreshTmp(tmpfiles)]
  /\ tmpfiles' = tmpfiles \cup {FreshTmp(tmpfiles)}
  /\ pc' = [pc EXCEPT ![r] = "get"]
  /\ UNCHANGED <<store, asset, length, kind, tag, fetch, connected, evt, container, releases,
                 done, members, extracted, err, events, last, snap, nfetch, nget>>
  /\ UNCHANGED <<fvars, dvars>>

\* mkstemp raises OSError: it is called before the try block, so the exception
\* leaves _install and the thread ends
MkstempFail(r) ==
  /\ pc[r] = "resolve"
  /\ tag[r] \in releases[r]
  /\ ~Exists(store, tag[r])
  /\ pc' = [pc EXCEPT ![r] = "done"]
  /\ UNCHANGED <<store, tmpfiles, asset, length, kind, tag, fetch, connected, evt, container,
                 releases, tmp, done, members, extracted, err, events, last,
                 snap, nfetch, nget>>
  /\ UNCHANGED <<fvars, dvars>>

\* requests.get(rel.asset_url, stream=True, timeout=30) answers
HttpGet(r) ==
  /\ pc[r] = "get"
  /\ nget' = [nget EXCEPT ![r] = @ + 1]
  /\ pc' = [pc EXCEPT ![r] = "stream"]
  /\ UNCHANGED <<store, tmpfiles, asset, length, kind, tag, fetch, connected, evt, container,
                 releases, tmp, done, members, extracted, err, events, last, snap, nfetch>>
  /\ UNCHANGED <<fvars, dvars>>

\* requests.get or raise_for_status raises
HttpGetFail(r) ==
  /\ pc[r] = "get"
  /\ nget' = [nget EXCEPT ![r] = @ + 1]
  /\ err' = [err EXCEPT ![r] = DownloadError]
  /\ pc' = [pc EXCEPT ![r] = "cleanup"]
  /\ UNCHANGED <<store, tmpfiles, asset, length, kind, tag, fetch, connected, evt, container,
                 releases, tmp, done, members, extracted, events, last, snap, nfetch>>
  /\ UNCHANGED <<fvars, dvars>>

\* total = int(resp.headers.get("Content-Length", 0))
Total(r) == length

\* one turn of the loop over resp.iter_content(CHUNK): if chunk: write, count, emit
Chunk(r, n) ==
  /\ pc[r] = "stream"
  /\ done[r] + n <= MaxChunks * CHUNK
  /\ IF n > 0
     THEN /\ done' = [done EXCEPT ![r] = @ + n]
          /\ Emit(r, Progress(tag[r], done[r] + n, Total(r)))
     ELSE UNCHANGED <<done, events, last>>
  /\ UNCHANGED <<store, tmpfiles, asset, length, kind, tag, pc, fetch, connected, evt, container,
                 releases, tmp, members, extracted, err, snap, nfetch, nget>>
  /\ UNCHANGED <<fvars, dvars>>

\* the connection breaks while streaming
StreamFail(r) ==
  /\ pc[r] = "stream"
  /\ err' = [err EXCEPT ![r] = DownloadError]
  /\ pc' = [pc EXCEPT ![r] = "cleanup"]
  /\ UNCHANGED <<store, tmpfiles, asset, length, kind, tag, fetch, connected, evt, container,
                 releases, tmp, done, members, extracted, events, last, snap,
                 nfetch, nget>>
  /\ UNCHANGED <<fvars, dvars>>

\* the stream is complete: installProgress "Extracting archive..."
StreamEnd(r) ==
  /\ pc[r] = "stream"
  /\ Emit(r, Phase(tag[r], "Extracting archive..."))
  /\ pc' = [pc EXCEPT ![r] = "open"]
  /\ UNCHANGED <<store, tmpfiles, asset, length, kind, tag, fetch, connected, evt, container,
                 releases, tmp, done, members, extracted, err, snap,
                 nfetch, nget>>
  /\ UNCHANGED <<fvars, dvars>>

\* mutant: the check for an archive without members is missing
OpenTarNoCheck(r) ==
  /\ pc[r] = "open"
  /\ done[r] > 0
  /\ members' = [members EXCEPT ![r] = asset]
  /\ pc' = [pc EXCEPT ![r] = "extract"]
  /\ UNCHANGED <<store, tmpfiles, asset, length, kind, tag, fetch, connected, evt, container,
                 releases, tmp, done, extracted, err, events, last, snap, nfetch, nget>>
  /\ UNCHANGED <<fvars, dvars>>

\* tarfile.open(tmp, "r:gz"); members = tar.getmembers(); raise on no members
OpenTar(r) ==
  /\ pc[r] = "open"
  /\ done[r] > 0
  /\ members' = [members EXCEPT ![r] = asset]
  /\ IF Len(asset) = 0
     THEN /\ err' = [err EXCEPT ![r] = EmptyArchive]
          /\ pc' = [pc EXCEPT ![r] = "cleanup"]
     ELSE /\ pc' = [pc EXCEPT ![r] = "extract"]
          /\ UNCHANGED err
  /\ UNCHANGED <<store, tmpfiles, asset, length, kind, tag, fetch, connected, evt, container,
                 releases, tmp, done, extracted, events, last, snap, nfetch, nget>>
  /\ UNCHANGED <<fvars, dvars>>

\* tarfile.open raises ReadError: the file is empty or no gzip tar
OpenTarFail(r) ==
  /\ pc[r] = "open"
  /\ err' = [err EXCEPT ![r] = ReadError]
  /\ pc' = [pc EXCEPT ![r] = "cleanup"]
  /\ UNCHANGED <<store, tmpfiles, asset, length, kind, tag, fetch, connected, evt, container,
                 releases, tmp, done, members, extracted, events, last, snap,
                 nfetch, nget>>
  /\ UNCHANGED <<fvars, dvars>>

\* tar.extractall(self.proton_dir) writes its next member
ExtractMember(r) ==
  /\ pc[r] = "extract"
  /\ extracted[r] < Len(members[r])
  /\ store' = ExtractInto(store, members[r][extracted[r] + 1])
  /\ extracted' = [extracted EXCEPT ![r] = @ + 1]
  /\ UNCHANGED <<tmpfiles, asset, length, kind, tag, pc, fetch, connected, evt, container,
                 releases, tmp, done, members, err, events, last, snap, nfetch, nget>>
  /\ UNCHANGED <<fvars, dvars>>

\* tar.extractall raises on its next member
ExtractFail(r) ==
  /\ pc[r] = "extract"
  /\ extracted[r] < Len(members[r])
  /\ err' = [err EXCEPT ![r] = ExtractError]
  /\ pc' = [pc EXCEPT ![r] = "cleanup"]
  /\ UNCHANGED <<store, tmpfiles, asset, length, kind, tag, fetch, connected, evt, container,
                 releases, tmp, done, members, extracted, events, last, snap,
                 nfetch, nget>>
  /\ UNCHANGED <<fvars, dvars>>

\* extractall returned: installProgress "Finalizing installation..."
Finalizing(r) ==
  /\ pc[r] = "extract"
  /\ extracted[r] = Len(members[r])
  /\ Emit(r, Phase(tag[r], "Finalizing installation..."))
  /\ pc' = [pc EXCEPT ![r] = "rename"]
  /\ UNCHANGED <<store, tmpfiles, asset, length, kind, tag, fetch, connected, evt, container,
                 releases, tmp, done, members, extracted, err, snap,
                 nfetch, nget>>
  /\ UNCHANGED <<fvars, dvars>>

\* top = members[0].name.split("/",1)[0]
Top(r) == members[r][1].dir

\* extracted = proton_dir / top; if extracted.exists(): extracted.rename(dest)
RenameStep(r) ==
  /\ pc[r] = "rename"
  /\ IF Exists(store, Top(r)) /\ ~RenameOk(store, Top(r), tag[r])
     THEN /\ err' = [err EXCEPT ![r] = RenameError]
          /\ pc' = [pc EXCEPT ![r] = "cleanup"]
          /\ UNCHANGED store
     ELSE /\ store' = IF Exists(store, Top(r)) THEN Rename(store, Top(r), tag[r]) ELSE store
          /\ pc' = [pc EXCEPT ![r] = "installed"]
          /\ UNCHANGED err
  /\ UNCHANGED <<tmpfiles, asset, length, kind, tag, fetch, connected, evt, container, releases,
                 tmp, done, members, extracted, events, last, snap, nfetch, nget>>
  /\ UNCHANGED <<fvars, dvars>>

\* downloadFinished.emit(tag, True, "Installed")
Installed(r) ==
  /\ pc[r] = "installed"
  /\ Emit(r, Finished(tag[r], TRUE, "Installed"))
  /\ pc' = [pc EXCEPT ![r] = "unlink"]
  /\ UNCHANGED <<store, tmpfiles, asset, length, kind, tag, fetch, connected, evt, container,
                 releases, tmp, done, members, extracted, err, snap,
                 nfetch, nget>>
  /\ UNCHANGED <<fvars, dvars>>

\* mutant: the handler does not remove dest
CleanupNoRmtree(r) ==
  /\ pc[r] = "cleanup"
  /\ pc' = [pc EXCEPT ![r] = "failed"]
  /\ UNCHANGED <<store, tmpfiles, asset, length, kind, tag, fetch, connected, evt, container,
                 releases, tmp, done, members, extracted, err, events, last, snap, nfetch,
                 nget>>
  /\ UNCHANGED <<fvars, dvars>>

\* except Exception: shutil.rmtree(dest, ignore_errors=True)
Cleanup(r) ==
  /\ pc[r] = "cleanup"
  /\ store' = Rmtree(store, tag[r])
  /\ pc' = [pc EXCEPT ![r] = "failed"]
  /\ UNCHANGED <<tmpfiles, asset, length, kind, tag, fetch, connected, evt, container, releases,
                 tmp, done, members, extracted, err, events, last, snap, nfetch, nget>>
  /\ UNCHANGED <<fvars, dvars>>

\* downloadFinished.emit(tag, False, str(e))
Failed(r) ==
  /\ pc[r] = "failed"
  /\ Emit(r, Finished(tag[r], FALSE, err[r]))
  /\ pc' = [pc EXCEPT ![r] = "unlink"]
  /\ UNCHANGED <<store, tmpfiles, asset, length, kind, tag, fetch, connected, evt, container,
                 releases, tmp, done, members, extracted, err, snap,
                 nfetch, nget>>
  /\ UNCHANGED <<fvars, dvars>>

\* mutant: no finally block, the temporary file stays
UnlinkNothing(r) ==
  /\ pc[r] = "unlink"
  /\ pc' = [pc EXCEPT ![r] = "done"]
  /\ tmp' = [tmp EXCEPT ![r] = 0]
  /\ done' = [done EXCEPT ![r] = 0]
  /\ members' = [members EXCEPT ![r] = <<>>]
  /\ extracted' = [extracted EXCEPT ![r] = 0]
  /\ err' = [err EXCEPT ![r] = ""]
  /\ UNCHANGED <<store, tmpfiles, asset, length, kind, tag, fetch, connected, evt, container,
                 releases, events, last, snap, nfetch, nget>>
  /\ UNCHANGED <<fvars, dvars>>

\* finally: pathlib.Path(tmp).unlink(missing_ok=True); _install returns and its
\* locals are gone
Unlink(r) ==
  /\ pc[r] = "unlink"
  /\ tmpfiles' = tmpfiles \ {tmp[r]}
  /\ pc' = [pc EXCEPT ![r] = "done"]
  /\ tmp' = [tmp EXCEPT ![r] = 0]
  /\ done' = [done EXCEPT ![r] = 0]
  /\ members' = [members EXCEPT ![r] = <<>>]
  /\ extracted' = [extracted EXCEPT ![r] = 0]
  /\ err' = [err EXCEPT ![r] = ""]
  /\ UNCHANGED <<store, asset, length, kind, tag, fetch, connected, evt, container,
                 releases, events, last, snap, nfetch, nget>>
  /\ UNCHANGED <<fvars, dvars>>

\* -------------------------------------------------------------- _uninstall
\* mutant: the return after the emit is missing; rmtree then raises
NotInstalledNoReturn(r) ==
  /\ pc[r] = "uninstall"
  /\ ~Exists(store, tag[r])
  /\ Emit(r, UninstallFinished(tag[r], FALSE, "Not installed"))
  /\ pc' = [pc EXCEPT ![r] = "rmtree"]
  /\ UNCHANGED <<store, tmpfiles, asset, length, kind, tag, fetch, connected, evt, container,
                 releases, tmp, done, members, extracted, err, snap,
                 nfetch, nget>>
  /\ UNCHANGED <<fvars, dvars>>

\* not dest.exists(): "Not installed"
NotInstalled(r) ==
  /\ pc[r] = "uninstall"
  /\ ~Exists(store, tag[r])
  /\ Emit(r, UninstallFinished(tag[r], FALSE, "Not installed"))
  /\ pc' = [pc EXCEPT ![r] = "done"]
  /\ UNCHANGED <<store, tmpfiles, asset, length, kind, tag, fetch, connected, evt, container,
                 releases, tmp, done, members, extracted, err, snap,
                 nfetch, nget>>
  /\ UNCHANGED <<fvars, dvars>>

\* dest.exists(): go on to the try block
UninstallFound(r) ==
  /\ pc[r] = "uninstall"
  /\ Exists(store, tag[r])
  /\ pc' = [pc EXCEPT ![r] = "rmtree"]
  /\ UNCHANGED <<store, tmpfiles, asset, length, kind, tag, fetch, connected, evt, container,
                 releases, tmp, done, members, extracted, err, events, last,
                 snap, nfetch, nget>>
  /\ UNCHANGED <<fvars, dvars>>

\* shutil.rmtree(dest) succeeds: "Uninstalled"
Uninstalled(r) ==
  /\ pc[r] = "rmtree"
  /\ Exists(store, tag[r])
  /\ store' = Rmtree(store, tag[r])
  /\ Emit(r, UninstallFinished(tag[r], TRUE, "Uninstalled"))
  /\ pc' = [pc EXCEPT ![r] = "done"]
  /\ UNCHANGED <<tmpfiles, asset, length, kind, tag, fetch, connected, evt, container, releases,
                 tmp, done, members, extracted, err, snap, nfetch, nget>>
  /\ UNCHANGED <<fvars, dvars>>

\* shutil.rmtree(dest) raises, having removed some of the files or none
UninstallFailed(r, fs) ==
  /\ pc[r] = "rmtree"
  /\ fs \subseteq store[tag[r]].files
  /\ store' = IF Exists(store, tag[r]) THEN [store EXCEPT ![tag[r]] = Dir(fs)] ELSE store
  /\ Emit(r, UninstallFinished(tag[r], FALSE, "remove error"))
  /\ pc' = [pc EXCEPT ![r] = "done"]
  /\ UNCHANGED <<tmpfiles, asset, length, kind, tag, fetch, connected, evt, container, releases,
                 tmp, done, members, extracted, err, snap, nfetch, nget>>
  /\ UNCHANGED <<fvars, dvars>>

\* --------------------------------------------------------- _emit_installed
\* mutant: the scan does not look for the entry point
EmitInstalledAllDirs(r) ==
  /\ pc[r] = "listing"
  /\ EmitList(r, InstalledReady(Sorted(ListAllDirs(store))))
  /\ pc' = [pc EXCEPT ![r] = "done"]
  /\ UNCHANGED <<store, tmpfiles, asset, length, kind, tag, fetch, connected, evt, container,
                 releases, tmp, done, members, extracted, err, snap, nfetch, nget>>
  /\ UNCHANGED <<fvars, dvars>>

\* tags = sorted(p.name for p in proton_dir.iterdir() if (p/"proton").exists());
\* installedReady.emit(tags)
EmitInstalled(r) ==
  /\ pc[r] = "listing"
  /\ EmitList(r, InstalledReady(Sorted(ListInstalled(store))))
  /\ pc' = [pc EXCEPT ![r] = "done"]
  /\ UNCHANGED <<store, tmpfiles, asset, length, kind, tag, fetch, connected, evt, container,
                 releases, tmp, done, members, extracted, err, snap, nfetch, nget>>
  /\ UNCHANGED <<fvars, dvars>>

\* iterdir or exists raises (proton_dir is gone or unreadable): tags = [];
\* installedReady.emit(tags)
EmitInstalledFail(r) ==
  /\ pc[r] = "listing"
  /\ err' = [err EXCEPT ![r] = "scan error"]
  /\ EmitList(r, InstalledReady(<<>>))
  /\ pc' = [pc EXCEPT ![r] = "done"]
  /\ UNCHANGED <<store, tmpfiles, asset, length, kind, tag, fetch, connected, evt, container,
                 releases, tmp, done, members, extracted, snap, nfetch, nget>>
  /\ UNCHANGED <<fvars, dvars>>

\* -------------------------------------------------------- proton_executable
\* no entry point: proton_executable returns None
NoPath == <<>>

\* mutant: the path is returned as soon as the directory exists
ProtonExecutableDirOnly(st, t) ==
  IF st[t].exists THEN <<"proton_dir", t, Marker>> ELSE NoPath

\* exe = proton_dir / tag / "proton"; return exe if exe.exists() else None
ProtonExecutable(st, t) ==
  IF st[t].exists /\ Marker \in st[t].files THEN <<"proton_dir", t, Marker>> ELSE NoPath

\* ------------------------------------------- consumers of downloadProgress
\* what a slot does with one event: it shows nothing, shows a percentage, or
\* raises ZeroDivisionError
NoPercent == [shown |-> FALSE, percent |-> 0, raised |-> FALSE]

\* int((done / total) * 100)
Percent(d, n) ==
  IF n = 0 THEN [shown |-> FALSE, percent |-> 0, raised |-> TRUE]
  ELSE [shown |-> TRUE, percent |-> (d * 100) \div n, raised |-> FALSE]

\* mutant: the slot divides without looking at total
OnDownloadProgressNoGuard(e) == Percent(e.done, e.total)

\* WineManager.on_download_progress: if total > 0: percent = ...
OnDownloadProgress(e) ==
  IF e.total > 0 THEN Percent(e.done, e.total) ELSE NoPercent

\* ProtonManagerDialog.show_progress: if total > 0: setValue(...)
ShowProgress(e) ==
  IF e.total > 0 THEN Percent(e.done, e.total) ELSE NoPercent

\* --------------------------------------------------------- specifications
Step ==
  \/ \E r \in Reqs : SyncRemote(r)
  \/ \E r \in Reqs, ok \in BOOLEAN : FetchRemote(r, ok)
  \/ \E r \in Reqs : WaitSet(r)
  \/ \E r \in Reqs : WaitTimeout(r)
  \/ \E r \in Reqs : NotFound(r)
  \/ \E r \in Reqs : AlreadyInstalled(r)
  \/ \E r \in Reqs : Mkstemp(r)
  \/ \E r \in Reqs : MkstempFail(r)
  \/ \E r \in Reqs : HttpGet(r)
  \/ \E r \in Reqs : HttpGetFail(r)
  \/ \E r \in Reqs, n \in ChunkLens : Chunk(r, n)
  \/ \E r \in Reqs : StreamFail(r)
  \/ \E r \in Reqs : StreamEnd(r)
  \/ \E r \in Reqs : OpenTar(r)
  \/ \E r \in Reqs : OpenTarFail(r)
  \/ \E r \in Reqs : ExtractMember(r)
  \/ \E r \in Reqs : ExtractFail(r)
  \/ \E r \in Reqs : Finalizing(r)
  \/ \E r \in Reqs : RenameStep(r)
  \/ \E r \in Reqs : Installed(r)
  \/ \E r \in Reqs : Cleanup(r)
  \/ \E r \in Reqs : Failed(r)
  \/ \E r \in Reqs : Unlink(r)
  \/ \E r \in Reqs : NotInstalled(r)
  \/ \E r \in Reqs : UninstallFound(r)
  \/ \E r \in Reqs : Uninstalled(r)
  \/ \E r \in Reqs, fs \in SUBSET Files : UninstallFailed(r, fs)
  \/ \E r \in Reqs : EmitInstalled(r)
  \/ \E r \in Reqs : EmitInstalledFail(r)

Next == Issue \/ Step
NextSeq == IssueSeq \/ Step

\* a first run: proton_dir was just created and is empty
InitFresh == Init /\ \A t \in Tags : store[t] = NoDir

\* any interleaving of the workers, from a fresh store
Spec == InitFresh /\ [][Next]_vars
\* one request at a time, from any store
SpecSeq == Init /\ [][NextSeq]_vars

\* one request at a time from a fresh store, where every step of a worker that can
\* be taken is taken in the end: evt.wait(20) runs out, every network read and
\* every filesystem call returns or raises
SpecLive == InitFresh /\ [][NextSeq]_vars /\ WF_vars(Step)

\* ------------------------------------------ _fetch_remote, record by record
\* names and download URLs of the assets of a release
AssetNames == {"p.tar.gz", "p.sha512sum"}
Urls == {"u1", "u2"}
Assets == [name : AssetNames, url : Urls]

\* a["name"].endswith(".tar.gz")
EndsWithTarGz(n) == n \in {"p.tar.gz"}

\* a release record of the API: tag_name, assets, and whether published_at
\* parses (datetime.fromisoformat raises ValueError if it does not)
Records == [tag : Tags, assets : SeqsUpTo(Assets, MaxAssets), valid : BOOLEAN]
Indexes == SeqsUpTo(Records, MaxRecords)

\* ProtonRelease(tag=..., asset_url=...)
ProtonRelease(t, u) == [tag |-> t, asset_url |-> u]

NoAsset == [name |-> "", url |-> ""]

\* mutant: the last asset with the suffix is taken
RECURSIVE LastAsset(_)
LastAsset(as) ==
  IF as = <<>> THEN NoAsset
  ELSE IF EndsWithTarGz(as[Len(as)].name) THEN as[Len(as)]
       ELSE LastAsset(SubSeq(as, 1, Len(as) - 1))

\* next((a for a in assets if a["name"].endswith(".tar.gz")), None)
RECURSIVE FirstAsset(_)
FirstAsset(as) ==
  IF as = <<>> THEN NoAsset
  ELSE IF EndsWithTarGz(Head(as).name) THEN Head(as)
       ELSE FirstAsset(Tail(as))

\* query_remote(): a thread runs _fetch_remote
QueryRemote ==
  /\ fpc \in {"idle", "done"}
  /\ nq < MaxReq
  /\ nq' = nq + 1
  /\ fpc' = "get"
  /\ fi' = 0
  /\ lst' = <<>>
  /\ ferr' = FALSE
  /\ UNCHANGED <<index, ready>>
  /\ UNCHANGED <<mvars, dvars>>

\* requests.get, raise_for_status and r.json() succeed; lst = []
GetIndex ==
  /\ fpc = "get"
  /\ fpc' = "map"
  /\ UNCHANGED <<index, fi, lst, ready, ferr, nq>>
  /\ UNCHANGED <<mvars, dvars>>

\* one of them raises: except Exception: remoteReady.emit([])
GetIndexFail ==
  /\ fpc = "get"
  /\ ready' = Append(ready, <<>>)
  /\ ferr' = TRUE
  /\ fpc' = "done"
  /\ UNCHANGED <<index, fi, lst, nq>>
  /\ UNCHANGED <<mvars, dvars>>

\* if not asset: continue
MapSkip ==
  /\ fpc = "map"
  /\ fi < Len(index)
  /\ FirstAsset(index[fi + 1].assets) = NoAsset
  /\ fi' = fi + 1
  /\ UNCHANGED <<index, fpc, lst, ready, ferr, nq>>
  /\ UNCHANGED <<mvars, dvars>>

\* lst.append(ProtonRelease(...))
MapAppend ==
  /\ fpc = "map"
  /\ fi < Len(index)
  /\ FirstAsset(index[fi + 1].assets) # NoAsset
  /\ index[fi + 1].valid
  /\ lst' = Append(lst, ProtonRelease(index[fi + 1].tag,
                                      FirstAsset(index[fi + 1].assets).url))
  /\ fi' = fi + 1
  /\ UNCHANGED <<index, fpc, ready, ferr, nq>>
  /\ UNCHANGED <<mvars, dvars>>

\* mutant: the handler emits what was mapped before the exception
MapRaiseEmitsMapped ==
  /\ fpc = "map"
  /\ fi < Len(index)
  /\ FirstAsset(index[fi + 1].assets) # NoAsset
  /\ ~index[fi + 1].valid
  /\ ready' = Append(ready, lst)
  /\ ferr' = TRUE
  /\ fpc' = "done"
  /\ UNCHANGED <<index, fi, lst, nq>>
  /\ UNCHANGED <<mvars, dvars>>

\* building the ProtonRelease raises: except Exception: remoteReady.emit([])
MapRaise ==
  /\ fpc = "map"
  /\ fi < Len(index)
  /\ FirstAsset(index[fi + 1].assets) # NoAsset
  /\ ~index[fi + 1].valid
  /\ ready' = Append(ready, <<>>)
  /\ ferr' = TRUE
  /\ fpc' = "done"
  /\ UNCHANGED <<index, fi, lst, nq>>
  /\ UNCHANGED <<mvars, dvars>>

\* the loop is over: remoteReady.emit(lst)
EmitRemote ==
  /\ fpc = "map"
  /\ fi = Len(index)
  /\ ready' = Append(ready, lst)
  /\ fpc' = "done"
  /\ UNCHANGED <<index, fi, lst, ferr, nq>>
  /\ UNCHANGED <<mvars, dvars>>

InitFetch ==
  /\ ManagerIdle
  /\ index \in Indexes
  /\ fpc = "idle"
  /\ fi = 0
  /\ lst = <<>>
  /\ ready = <<>>
  /\ ferr = FALSE
  /\ nq = 0
  /\ DiscoverIdle

NextFetch ==
  \/ QueryRemote
  \/ GetIndex
  \/ GetIndexFail
  \/ MapSkip
  \/ MapAppend
  \/ MapRaise
  \/ EmitRemote

\* listRemote requests one after the other, for any answer of the API
SpecFetch == InitFetch /\ [][NextFetch]_vars

\* -------------------------------------------------------- discover_prefixes
\* the candidate roots, in the order of the list roots: 1 is home/".wine", the
\* others are the further well-known roots and CFG["extra_prefix_dirs"]
Roots == 1..MaxRoots
\* the physical directories the candidate paths can resolve to (two paths
\* resolve to one directory when one of them is a symlink to the other)
PhysDirs == {"d1", "d2"}
Missing == "none"
\* what the entry "app1" of a directory is: absent, a file, a directory without
\* system.reg, one with it, one without it whose prefix/ has it, one where both
\* have it
ChildKinds == {"none", "file", "plain", "prefix", "nested", "both"}
Disks == [PhysDirs -> [marker : BOOLEAN, child : ChildKinds]]

\* str(r), str(c), str(c/"prefix"): the root and the segments below it
Path(i, sub) == [root |-> i, sub |-> sub]
RootPath(i) == Path(i, <<>>)
ChildPath(i) == Path(i, <<"app1">>)
NestedPath(i) == Path(i, <<"app1", "prefix">>)

\* the order of str: the strings of the roots are in the order of the list and
\* none is the beginning of another; below one root a path precedes its subpaths
PathLess(p, q) ==
  \/ p.root < q.root
  \/ p.root = q.root /\ Len(p.sub) < Len(q.sub)

\* mutant: the list is returned in descending order
RECURSIVE Descending(_)
Descending(S) ==
  IF S = {} THEN <<>>
  ELSE LET m == CHOOSE x \in S : \A y \in S : x = y \/ PathLess(y, x)
       IN  <<m>> \o Descending(S \ {m})

\* sorted(prefixes)
RECURSIVE SortPaths(_)
SortPaths(S) ==
  IF S = {} THEN <<>>
  ELSE LET m == CHOOSE x \in S : \A y \in S : x = y \/ PathLess(x, y)
       IN  <<m>> \o SortPaths(S \ {m})

\* r.exists()
RootExists(i) == link[i] # Missing
\* (r/"system.reg").exists()
RootMarker(i) == RootExists(i) /\ disk[link[i]].marker
\* the entry c of r
Child(i) == disk[link[i]].child

\* load_prefixes() calls discover_prefixes() on the thread it runs on, the GUI
\* thread: roots is built, prefixes = set()
Discover ==
  /\ ctx = "loop"
  /\ dpc \in {"idle", "done", "stale", "raised"}
  /\ ncalls < MaxCalls
  /\ ncalls' = ncalls + 1
  /\ prev' = result
  /\ prefixes' = {}
  /\ skipped' = {}
  /\ ri' = 1
  /\ dpc' = "exists"
  /\ ctx' = "load_prefixes"
  /\ UNCHANGED <<link, disk, result>>
  /\ UNCHANGED <<mvars, fvars>>

\* for r in roots: if not r.exists(): continue
SkipMissing ==
  /\ dpc = "exists"
  /\ ri \in Roots
  /\ ~RootExists(ri)
  /\ ri' = ri + 1
  /\ UNCHANGED <<link, disk, dpc, prefixes, result, prev, ncalls, skipped, ctx>>
  /\ UNCHANGED <<mvars, fvars>>

\* if (r/"system.reg").exists(): prefixes.add(str(r))
CheckRoot ==
  /\ dpc = "exists"
  /\ ri \in Roots
  /\ RootExists(ri)
  /\ prefixes' = IF RootMarker(ri) THEN prefixes \cup {RootPath(ri)} ELSE prefixes
  /\ dpc' = "iter"
  /\ UNCHANGED <<link, disk, ri, result, prev, ncalls, skipped, ctx>>
  /\ UNCHANGED <<mvars, fvars>>

\* the root exists but may not be searched: stat of r/"system.reg" fails with
\* EACCES, Path.exists() re-raises it, and the check is outside the try block
CheckRootRaises ==
  /\ dpc = "exists"
  /\ ri \in Roots
  /\ RootExists(ri)
  /\ dpc' = "raised"
  /\ ctx' = "loop"
  /\ UNCHANGED <<link, disk, ri, prefixes, result, prev, ncalls, skipped>>
  /\ UNCHANGED <<mvars, fvars>>

\* mutant: "if" in place of "elif": the nested prefix is recorded as well
ScanChildrenBoth ==
  /\ dpc = "iter"
  /\ prefixes' = prefixes
       \cup (IF Child(ri) \in {"prefix", "both"} THEN {ChildPath(ri)} ELSE {})
       \cup (IF Child(ri) \in {"nested", "both"} THEN {NestedPath(ri)} ELSE {})
  /\ ri' = ri + 1
  /\ dpc' = "exists"
  /\ UNCHANGED <<link, disk, result, prev, ncalls, skipped, ctx>>
  /\ UNCHANGED <<mvars, fvars>>

\* for c in r.iterdir(): skip what is no directory; record c if c/"system.reg"
\* exists, else c/"prefix" if c/"prefix"/"system.reg" exists
ScanChildren ==
  /\ dpc = "iter"
  /\ prefixes' = prefixes
       \cup (CASE Child(ri) \in {"prefix", "both"} -> {ChildPath(ri)}
               [] Child(ri) = "nested" -> {NestedPath(ri)}
               [] OTHER -> {})
  /\ ri' = ri + 1
  /\ dpc' = "exists"
  /\ UNCHANGED <<link, disk, result, prev, ncalls, skipped, ctx>>
  /\ UNCHANGED <<mvars, fvars>>

\* iterdir raises (PermissionError or another exception): logged, next root
ScanRaises ==
  /\ dpc = "iter"
  /\ skipped' = skipped \cup {ri}
  /\ ri' = ri + 1
  /\ dpc' = "exists"
  /\ UNCHANGED <<link, disk, prefixes, result, prev, ncalls, ctx>>
  /\ UNCHANGED <<mvars, fvars>>

\* after the loop: the default prefix home/".wine" is added if it has system.reg
AddDefault ==
  /\ dpc = "exists"
  /\ ri \notin Roots
  /\ prefixes' = IF RootMarker(1) THEN prefixes \cup {RootPath(1)} ELSE prefixes
  /\ dpc' = "sort"
  /\ UNCHANGED <<link, disk, ri, result, prev, ncalls, skipped, ctx>>
  /\ UNCHANGED <<mvars, fvars>>

\* result = sorted(prefixes); return result: load_prefixes fills the list widget
\* and the GUI thread is back in its event loop
Return ==
  /\ dpc = "sort"
  /\ result' = SortPaths(prefixes)
  /\ dpc' = "done"
  /\ ctx' = "loop"
  /\ UNCHANGED <<link, disk, ri, prefixes, prev, ncalls, skipped>>
  /\ UNCHANGED <<mvars, fvars>>

\* between two calls a system.reg is created or removed
MarkerChange(d) ==
  /\ dpc = "done"
  /\ ncalls < MaxCalls
  /\ disk' = [disk EXCEPT ![d].marker = ~@]
  /\ dpc' = "stale"
  /\ UNCHANGED <<link, ri, prefixes, result, prev, ncalls, skipped, ctx>>
  /\ UNCHANGED <<mvars, fvars>>

\* between two calls a candidate root is created, removed or linked elsewhere
RootChange(i, d) ==
  /\ dpc = "done"
  /\ ncalls < MaxCalls
  /\ link[i] # d
  /\ link' = [link EXCEPT ![i] = d]
  /\ dpc' = "stale"
  /\ UNCHANGED <<disk, ri, prefixes, result, prev, ncalls, skipped, ctx>>
  /\ UNCHANGED <<mvars, fvars>>

InitDiscover ==
  /\ ManagerIdle
  /\ FetchIdle
  /\ link \in [Roots -> PhysDirs \cup {Missing}]
  /\ disk \in Disks
  /\ dpc = "idle"
  /\ ri = 0
  /\ prefixes = {}
  /\ result = <<>>
  /\ prev = <<>>
  /\ ncalls = 0
  /\ skipped = {}
  /\ ctx = "loop"

NextDiscover ==
  \/ Discover
  \/ SkipMissing
  \/ CheckRoot
  \/ CheckRootRaises
  \/ ScanChildren
  \/ ScanRaises
  \/ AddDefault
  \/ Return
  \/ \E d \in PhysDirs : MarkerChange(d)
  \/ \E i \in Roots, d \in PhysDirs \cup {Missing} : RootChange(i, d)

\* calls of discover_prefixes, for any filesystem, with changes between them
SpecDiscover == InitDiscover /\ [][NextDiscover]_vars

\* ================================================================= claims
IsInstall(r) == kind[r] = "install"
\* no request was issued after r: under SpecSeq every change of the store since
\* snap[r] is r's own
Latest(r) == \A q \in Reqs : q > r => pc[q] = "idle"
Last(s) == s[Len(s)]
Terminals(s) == SelectSeq(s, LAMBDA e : e.sig = "downloadFinished")
HasTerminal(r) == Terminals(events[r]) # <<>>
Succeeded(r) == HasTerminal(r) /\ Last(events[r]).sig = "downloadFinished" /\ Last(events[r]).ok
Emitted(r, e) == \E i \in 1..Len(events[r]) : events[r][i] = e
\* the files the archive puts below its top-level directory
Content(a) == {a[i].file : i \in {j \in 1..Len(a) : a[j].dir = a[1].dir}}
Extracting(r) == IsInstall(r) /\ pc[r] \in {"extract", "rename", "installed"}

\* C1: while an install pipeline extracts and finalizes, the directory store/tag is
\* absent or holds the complete content of the archive (never a part of it).
C1_NoPartialDirectory ==
  \A r \in Reqs :
    (Extracting(r) /\ Exists(store, tag[r])) => Content(members[r]) \subseteq store[tag[r]].files

\* C2: after a successful terminal event of install(tag), with no store mutation in
\* between, listInstalled() contains tag.
C2_SuccessIsListed ==
  \A r \in Reqs :
    (IsInstall(r) /\ Latest(r) /\ pc[r] \in {"unlink", "done"} /\ Succeeded(r))
      => tag[r] \in ListInstalled(store)

\* two install requests for one tag, the second issued right after the first ended
Twice(r) ==
  /\ r + 1 \in Reqs
  /\ IsInstall(r) /\ IsInstall(r + 1) /\ tag[r] = tag[r + 1]
  /\ pc[r] = "done" /\ pc[r + 1] = "done"
  /\ Latest(r + 1)

C4_NotFoundIsInert ==
  \A r \in Reqs :
    (IsInstall(r) /\ Latest(r) /\ pc[r] \notin {"sync", "wait"} /\ tag[r] \notin releases[r])
      => /\ pc[r] \in {"resolve", "done"}
         /\ pc[r] = "done" => events[r] = <<Finished(tag[r], FALSE, "Release not found")>>
         /\ pc[r] = "resolve" => events[r] = <<>>
         /\ tmp[r] = 0 /\ tmpfiles = {}
         /\ nget[r] = 0
         /\ store = snap[r]

C4_Witness ==
  \E r \in Reqs :
    /\ IsInstall(r) /\ pc[r] = "done" /\ tag[r] \in Catalog /\ releases[r] = {}
    /\ Exists(store, tag[r])
    /\ events[r] # <<>>

\* C5: with an archive of zero members the pipeline never extracts or finalizes, ends
\* with a failed terminal event carrying the error of the open step, never changes
\* the store, and store/tag does not exist afterwards.
C5_EmptyArchiveFails ==
  asset = <<>> =>
    \A r \in Reqs :
      (IsInstall(r) /\ Latest(r)) =>
        /\ ~Extracting(r)
        /\ ~Emitted(r, Phase(tag[r], "Finalizing installation..."))
        /\ store = snap[r]
        /\ (pc[r] \in {"cleanup", "failed", "unlink"} /\ done[r] > 0
              /\ Emitted(r, Phase(tag[r], "Extracting archive...")))
             => err[r] \in {EmptyArchive, ReadError}
        /\ (pc[r] = "unlink")
             => /\ Last(events[r]) = Finished(tag[r], FALSE, err[r])
                /\ ~Exists(store, tag[r])
        /\ (pc[r] = "done" /\ Emitted(r, Finished(tag[r], FALSE, EmptyArchive)))
             => ~Exists(store, tag[r])

C5_Witness ==
  /\ asset = <<>>
  /\ \E r \in Reqs : IsInstall(r) /\ pc[r] = "unlink" /\ err[r] = EmptyArchive

C7_ExactlyOneTerminal ==
  \A r \in Reqs :
    (IsInstall(r) /\ pc[r] = "done")
      => /\ Len(Terminals(events[r])) = 1
         /\ Last(events[r]).sig = "downloadFinished"
         /\ nfetch[r] <= 1 /\ nget[r] <= 1

\* C8: in the stream of events observed for one tag, under any interleaving of the
\* requests, no download-progress event follows a phase event.
C8_NoProgressAfterPhase ==
  [][\A t \in Tags :
       last[t].sig = "installProgress" => last'[t].sig # "downloadProgress"]_vars

\* C9: every temporary file that exists is held by exactly one pipeline whose worker
\* has not ended, and every file a pipeline holds exists: no file outlives its
\* pipeline, none is shared and none is removed by another pipeline.
Holding(r) == tmp[r] # 0
C9_TmpPrivateAndRemoved ==
  /\ tmpfiles = {tmp[r] : r \in {q \in Reqs : Holding(q)}}
  /\ \A r \in Reqs : Holding(r) => IsInstall(r) /\ pc[r] \notin {"idle", "done"}
  /\ \A r, q \in Reqs : (r # q /\ Holding(r)) => tmp[r] # tmp[q]

C9_Witness ==
  \E r, q \in Reqs : r # q /\ Holding(r) /\ Holding(q) /\ pc[q] = "unlink"

\* C10 as claimed: an install that finds store/tag present when it is issued
\* publishes "Already installed" only, starts no download, creates no temporary file
\* and leaves the store unchanged.
C10_InstalledMeansAlreadyInstalled ==
  \A r \in Reqs :
    (IsInstall(r) /\ Latest(r) /\ Exists(snap[r], tag[r]) /\ pc[r] = "done")
      => /\ events[r] = <<Finished(tag[r], TRUE, "Already installed")>>
         /\ nget[r] = 0
         /\ store = snap[r]

\* C10 as amended: the same, for an install that finds the tag in the release list it
\* fetched.
C10_ResolvedAndInstalled ==
  \A r \in Reqs :
    (IsInstall(r) /\ Latest(r) /\ Exists(snap[r], tag[r])
       /\ pc[r] \notin {"sync", "wait", "resolve"} /\ tag[r] \in releases[r])
      => /\ pc[r] = "done"
         /\ events[r] = <<Finished(tag[r], TRUE, "Already installed")>>
         /\ nget[r] = 0
         /\ tmp[r] = 0 /\ tmpfiles = {}
         /\ store = snap[r]

C10_Witness ==
  \E r \in Reqs :
    /\ IsInstall(r) /\ Latest(r) /\ Exists(snap[r], tag[r])
    /\ pc[r] = "done" /\ tag[r] \in releases[r]

\* an install request that found store/tag present when it was issued and has ended
InstalledBefore(r) ==
  IsInstall(r) /\ Latest(r) /\ Exists(snap[r], tag[r]) /\ pc[r] = "done"

\* C11 as claimed: install(tag) on a store that holds a directory for tag publishes a
\* successful terminal event whatever the catalog fetch yields, and changes nothing.
C11_InstalledAlwaysSucceeds ==
  \A r \in Reqs : InstalledBefore(r) => (Succeeded(r) /\ store = snap[r])

\* C11 as amended: install(tag) on a store that holds a directory for tag publishes
\* exactly one terminal event and changes nothing; the event is the success
\* "Already installed" when the fetched release list contains tag and the failure
\* "Release not found" when the fetch failed, timed out or returned a list without tag.
C11_OutcomeFollowsCatalog ==
  \A r \in Reqs :
    InstalledBefore(r)
      => /\ events[r] = << IF tag[r] \in releases[r]
                           THEN Finished(tag[r], TRUE, "Already installed")
                           ELSE Finished(tag[r], FALSE, "Release not found") >>
         /\ nget[r] = 0
         /\ store = snap[r]

C11_Witness ==
  \E r \in Reqs :
    /\ InstalledBefore(r) /\ tag[r] \notin Catalog /\ releases[r] = Catalog
    /\ Len(events[r]) = 1

IsUninstall(r) == kind[r] = "uninstall"

\* C12: uninstall(tag) for a tag without a directory under the store root publishes
\* exactly one terminal event, (tag, false, "Not installed"), never reaches the
\* removal and changes nothing on the filesystem.
C12_NotInstalledIsInert ==
  \A r \in Reqs :
    (IsUninstall(r) /\ Latest(r) /\ ~Exists(snap[r], tag[r]) /\ pc[r] # "uninstall")
      => /\ pc[r] = "done"
         /\ events[r] = <<UninstallFinished(tag[r], FALSE, "Not installed")>>
         /\ store = snap[r]
         /\ tmpfiles = {}

C12_Witness ==
  \E r \in Reqs :
    /\ IsUninstall(r) /\ pc[r] = "done" /\ ~Exists(snap[r], tag[r])
    /\ \E t \in Tags : Exists(store, t)

\* an install and an uninstall of one tag, the second issued right after the first
\* ended, both successful, the install having written the directory
RoundTrip(r) ==
  /\ r + 1 \in Reqs
  /\ IsInstall(r) /\ IsUninstall(r + 1) /\ tag[r] = tag[r + 1]
  /\ pc[r] = "done" /\ pc[r + 1] = "done"
  /\ Latest(r + 1)
  /\ Emitted(r, Finished(tag[r], TRUE, "Installed"))
  /\ events[r + 1] = <<UninstallFinished(tag[r], TRUE, "Uninstalled")>>

\* what C13 says of one uninstall(tag) that found store/tag present: exactly one
\* terminal event; on success the directory is gone, tag is not listed and every
\* other directory is as it was; on a removal error the event carries its message
UninstallOutcome(r) ==
  /\ Len(events[r]) = 1
  /\ events[r][1].sig = "uninstallFinished" /\ events[r][1].tag = tag[r]
  /\ IF events[r][1].ok
     THEN /\ events[r][1].msg = "Uninstalled"
          /\ ~Exists(store, tag[r])
          /\ tag[r] \notin ListInstalled(store)
          /\ \A t \in Tags \ {tag[r]} : store[t] = snap[r][t]
     ELSE events[r][1].msg = "remove error"

\* C13: uninstall(tag) of an existing directory removes it and publishes exactly one
\* terminal event (success "Uninstalled", or failure with the error message), and a
\* successful install(tag) followed by a successful uninstall(tag) leaves the set of
\* installed tags as it was before the install.
C13_UninstallRemovesAndRoundTrips ==
  /\ \A r \in Reqs :
       (IsUninstall(r) /\ Latest(r) /\ Exists(snap[r], tag[r]) /\ pc[r] = "done")
         => UninstallOutcome(r)
  /\ \A r \in Reqs :
       RoundTrip(r) => ListInstalled(store) = ListInstalled(snap[r])

IsListInstalled(r) == kind[r] = "listInstalled"
Elems(l) == {l[i] : i \in 1..Len(l)}

\* C14: a listInstalledAsync request publishes exactly one installed-list-ready
\* event; without an enumeration error its payload names, once each, exactly the
\* directories of the store root that hold the entry-point file, and with an
\* enumeration error (the store directory missing included) it is the empty list.
C14_InstalledListIsExact ==
  \A r \in Reqs :
    (IsListInstalled(r) /\ Latest(r) /\ pc[r] # "listing")
      => /\ pc[r] = "done"
         /\ Len(events[r]) = 1
         /\ events[r][1].sig = "installedReady"
         /\ LET l == events[r][1].list
            IN  IF err[r] = ""
                THEN /\ \A t \in Tags :
                          t \in Elems(l) <=> (store[t].exists /\ Marker \in store[t].files)
                     /\ Elems(l) \subseteq Tags
                     /\ Len(l) = Cardinality(Elems(l))
                ELSE l = <<>>
         /\ store = snap[r]

C14_Witness ==
  \E r \in Reqs :
    /\ IsListInstalled(r) /\ pc[r] = "done" /\ err[r] = ""
    /\ events[r][1].list = <<"A">>
    /\ Exists(store, "B")

\* C15: every listRemote request publishes exactly one remote-catalog-ready event:
\* the list mapped from all records when nothing raised, and the empty list when the
\* request, the parse or the mapping of one record raised (what was mapped before is
\* discarded).
C15_OneRemoteReadyPerRequest ==
  /\ Len(ready) = IF fpc \in {"get", "map"} THEN nq - 1 ELSE nq
  /\ fpc = "done"
       => /\ Last(ready) = IF ferr THEN <<>> ELSE lst
          /\ ~ferr => fi = Len(index)

C15_Witness ==
  /\ fpc = "done" /\ ferr /\ nq = 2
  /\ fi = 1 /\ lst # <<>>
  /\ Len(ready) = 2 /\ ready[2] = <<>>

\* the record has an asset whose name ends in ".tar.gz"
HasArchive(rel) == \E i \in 1..Len(rel.assets) : EndsWithTarGz(rel.assets[i].name)
\* the records handled so far that have one, in the order of the index
Kept == SelectSeq(SubSeq(index, 1, fi), HasArchive)

\* C16: the catalog holds one descriptor for each record handled that has an asset
\* with the suffix ".tar.gz", in the order of the records, none for the other
\* records, and the descriptor's URL is that of the first such asset of its record;
\* the catalog published without an error covers every record of the index.
C16_CatalogSelectsFirstArchive ==
  /\ Len(lst) = Len(Kept)
  /\ \A k \in 1..Len(lst) :
       /\ lst[k].tag = Kept[k].tag
       /\ \E i \in 1..Len(Kept[k].assets) :
            /\ EndsWithTarGz(Kept[k].assets[i].name)
            /\ \A j \in 1..(i - 1) : ~EndsWithTarGz(Kept[k].assets[j].name)
            /\ lst[k].asset_url = Kept[k].assets[i].url
  /\ (fpc = "done" /\ ~ferr) => (fi = Len(index) /\ ready[Len(ready)] = lst)

C16_Witness ==
  /\ fpc = "done" /\ ~ferr
  /\ Len(index) = 2
  /\ ~HasArchive(index[1])
  /\ Len(index[2].assets) = 2
  /\ EndsWithTarGz(index[2].assets[1].name) /\ EndsWithTarGz(index[2].assets[2].name)
  /\ index[2].assets[1].url # index[2].assets[2].url
  /\ Len(ready[Len(ready)]) = 1

\* the path exists and has system.reg, on the filesystem as it is now
Carries(p) ==
  /\ RootExists(p.root)
  /\ CASE p.sub = <<>> -> disk[link[p.root]].marker
       [] p.sub = <<"app1">> -> Child(p.root) \in {"prefix", "both"}
       [] OTHER -> Child(p.root) \in {"nested", "both"}
\* the physical directory the path resolves to
Phys(p) == [dir |-> link[p.root], sub |-> p.sub]
Returned == Elems(result)

\* C17: the list discover() returned is in ascending order without a repetition,
\* every path in it exists and has the marker file on the filesystem as it is at
\* the call, and every root that has the marker file at the call is in it (nothing
\* is kept from an earlier call).
C17_SortedSoundFresh ==
  dpc = "done" =>
    /\ \A i, j \in 1..Len(result) : i < j => PathLess(result[i], result[j])
    /\ \A i \in 1..Len(result) : Carries(result[i])
    /\ \A r \in Roots : RootMarker(r) => RootPath(r) \in Returned

C17_Witness ==
  /\ dpc = "done" /\ ncalls = 2
  /\ Len(result) >= 2 /\ prev # <<>> /\ result # prev
  /\ \E i \in 1..Len(prev) : prev[i] \notin Returned

\* C18: no two paths of the list discover() returned resolve to the same physical
\* directory.
C18_EachPhysicalSandboxOnce ==
  dpc = "done" =>
    \A i, j \in 1..Len(result) : i # j => Phys(result[i]) # Phys(result[j])

\* the paths of the returned list that lie in or below root r
Recorded(r) == {p \in Returned : p.root = r}

Reachable(r) ==
  IF ~RootExists(r) THEN {}
  ELSE (IF disk[link[r]].marker THEN {RootPath(r)} ELSE {})
       \cup (IF Child(r) \in {"prefix", "both"} THEN {ChildPath(r)} ELSE {})
       \cup (IF Child(r) = "nested" THEN {NestedPath(r)} ELSE {})

\* C20: discover() never ends with an exception; a missing root and a root whose
\* enumeration raised are skipped and every sandbox that can be reached through the
\* other roots is returned; with no root existing the result is the empty list.
C20_NeverFails ==
  /\ dpc # "raised"
  /\ dpc = "done" =>
       /\ \A r \in Roots \ skipped : Reachable(r) \subseteq Returned
       /\ (\A r \in Roots : ~RootExists(r)) => result = <<>>

\* the download-progress events worker r published
ProgressEvents(r) ==
  {events[r][i] : i \in {j \in 1..Len(events[r]) : events[r][j].sig = "downloadProgress"}}

\* C21: a download-progress event carries total 0 exactly when the server sent no
\* Content-Length, and both consumers compute a percentage exactly for the events
\* with total > 0, so neither divides by zero for any published event.
C21_NoDivisionByZero ==
  \A r \in Reqs :
    \A e \in ProgressEvents(r) :
      /\ e.total = 0 <=> length = 0
      /\ ~OnDownloadProgress(e).raised /\ ~ShowProgress(e).raised
      /\ OnDownloadProgress(e).shown <=> e.total > 0
      /\ ShowProgress(e).shown <=> e.total > 0

C21_Witness ==
  \E r \in Reqs :
    \E e \in ProgressEvents(r) : e.total = 0 /\ e.done > 0

\* C22: every install request that was started publishes its terminal event in the
\* end.
C22_EventuallyTerminal ==
  \A r \in Reqs : IsInstall(r) ~> HasTerminal(r)

\* C23: until the extraction of an install pipeline has completed in full nothing
\* under the store root is created or changed, and the only entry its pipeline ever
\* changes is store/tag.
C23_NoStoreChangeBeforePlacement ==
  \A r \in Reqs :
    (IsInstall(r) /\ Latest(r))
      => /\ pc[r] \in {"sync", "wait", "resolve", "get", "stream", "open", "extract"}
              => store = snap[r]
         /\ \A t \in Tags \ {tag[r]} : store[t] = snap[r][t]

\* C28: while and after an install(tag) pipeline runs, the directory of every other
\* tag that was installed when the request was issued is still there with the
\* content it had, whatever the archive holds and however the pipeline ends.
C28_OtherTagsUntouched ==
  \A r \in Reqs :
    (IsInstall(r) /\ Latest(r))
      => \A t \in ListInstalled(snap[r]) \ {tag[r]} :
           /\ t \in ListInstalled(store)
           /\ store[t].files = snap[r][t].files

\* the names of the entries under the store root
Entries(st) == {t \in Tags : Exists(st, t)}

\* C29: after an install that ended with a failed terminal event the store root holds
\* the entries it held when the request was issued.
C29_FailureRestoresEntries ==
  \A r \in Reqs :
    (IsInstall(r) /\ Latest(r) /\ pc[r] = "done" /\ HasTerminal(r) /\ ~Succeeded(r))
      => Entries(store) = Entries(snap[r])

\* C24: when the wait of an install pipeline ends because its event was set, the
\* catalog fetch this pipeline started has ended: the list it resolves the tag with
\* is never one that another fetch published while its own was still running.
C24_ResolvesFromOwnFetch ==
  [][\A r \in Reqs :
       (pc[r] = "wait" /\ pc'[r] = "resolve" /\ evt[r]) => fetch[r] = "done"]_vars

\* C25: the result container and the event of a request are written only by steps
\* of that request's own threads, never by a step of another worker.
C25_NoForeignWrite ==
  [][\A q \in Reqs :
       (container'[q] # container[q] \/ evt'[q] # evt[q])
         => (pc'[q] # pc[q] \/ fetch'[q] # fetch[q])]_vars

\* every request issued so far is an install of tag t
OnlyInstallsOf(t) ==
  \A q \in Reqs : kind[q] # "none" => (IsInstall(q) /\ tag[q] = t)

\* C30: with install pipelines of one tag running concurrently and no uninstall,
\* once one of them has published (tag, true, "Installed") store/tag is present and
\* stays present, whatever the other pipeline does.
C30_CommittedStaysPresent ==
  \A r \in Reqs :
    (OnlyInstallsOf(tag[r]) /\ Emitted(r, Finished(tag[r], TRUE, "Installed")))
      => Exists(store, tag[r])

\* C26: no step of a prefix scan that touches the filesystem is executed by the
\* coordinating context: while a scan is under way the coordinating context is in
\* its event loop.
C26_ContextRunsNoScan ==
  dpc \in {"exists", "iter", "sort"} => ctx = "loop"

\* an ended installed-listing request that no later request followed
Listed(r) == IsListInstalled(r) /\ Latest(r) /\ pc[r] = "done"

\* an ended install request that found store/tag without the entry point and
\* resolved tag in the release list it fetched
InstalledBare(r) ==
  /\ InstalledBefore(r)
  /\ Marker \notin snap[r][tag[r]].files
  /\ tag[r] \in releases[r]

\* C27 as claimed: in every store state the installed list contains a tag exactly
\* when proton_executable returns a path for it; a directory without the entry
\* point is in neither, although install answers it with "Already installed".
C27_ListedIffResolvable ==
  /\ \A r \in Reqs :
       Listed(r)
         => \A t \in Tags :
              t \in Elems(events[r][1].list) <=> ProtonExecutable(store, t) # NoPath
  /\ \A r \in Reqs :
       InstalledBare(r)
         => /\ events[r] = <<Finished(tag[r], TRUE, "Already installed")>>
            /\ ProtonExecutable(store, tag[r]) = NoPath
            /\ tag[r] \notin ListInstalled(store)

\* C27 as amended: when the enumeration of the store raised no error, the installed
\* list contains a tag exactly when proton_executable returns a path for it; a
\* directory without the entry point is in neither, although install answers it
\* with "Already installed" once the tag is resolved.
C27_ListedIffResolvableWhenEnumerated ==
  /\ \A r \in Reqs :
       (Listed(r) /\ err[r] = "")
         => \A t \in Tags :
              t \in Elems(events[r][1].list) <=> ProtonExecutable(store, t) # NoPath
  /\ \A r \in Reqs :
       InstalledBare(r)
         => /\ events[r] = <<Finished(tag[r], TRUE, "Already installed")>>
            /\ ProtonExecutable(store, tag[r]) = NoPath
            /\ tag[r] \notin ListInstalled(store)

C27_Witness ==
  \E r \in Reqs :
    /\ r + 1 \in Reqs
    /\ IsInstall(r) /\ Emitted(r, Finished(tag[r], TRUE, "Already installed"))
    /\ Exists(store, tag[r]) /\ Marker \notin store[tag[r]].files
    /\ Listed(r + 1) /\ err[r + 1] = ""
    /\ tag[r] \notin Elems(events[r + 1][1].list)
    /\ ProtonExecutable(store, tag[r]) = NoPath
    /\ \E t \in Tags : ProtonExecutable(store, t) # NoPath /\ t \in Elems(events[r + 1][1].list)

====
